---- MODULE Spec2Model ----
(***************************************************************************)
(* Model of the menu analyser, src/src/app/api/analyse/route.ts, of the    *)
(* extract route, src/src/app/api/extract/route.ts, and of the page that   *)
(* calls them and the chat route, src/README.md.                           *)
(*                                                                         *)
(* Strings are sequences of one-character strings, so that the regular     *)
(* expressions of canonicaliseName and estimateCalories are computed       *)
(* character by character.  Numbers of the JSON payload are tagged         *)
(* records (a finite number, +Infinity, -Infinity, NaN or an absent        *)
(* value); finite prices are integers.                                     *)
(***************************************************************************)
EXTENDS Integers, Sequences, FiniteSets, TLC

VARIABLES
  pc,           \* position of the POST handler
  json,         \* the request body as received
  items,        \* route.ts:59 the mapped items
  idx,          \* position of the for-of loop of route.ts:74
  minPrice,     \* route.ts:71
  maxPrice,     \* route.ts:72
  healthiest,   \* route.ts:67
  mostFilling,  \* route.ts:68
  response,     \* what the handler returned
  name,         \* the argument of canonicaliseName / estimateCalories
  canon,        \* canonicaliseName(name)
  recanon,      \* canonicaliseName(canon)
  calories,     \* estimateCalories(name)
  npc,          \* position of the name pipeline
  calls,        \* concurrent invocations of POST: position, body, response
  frames,       \* the locals of each invocation of POST
  extract,      \* an invocation of the extract route
  ui,           \* the state hooks of the page (README.md:206-224)
  runs,         \* the invocations of processImage
  chats         \* the invocations of askChat

vars == <<pc, json, items, idx, minPrice, maxPrice, healthiest, mostFilling,
          response, name, canon, recanon, calories, npc,
          calls, frames, extract, ui, runs, chats>>

concVars == <<calls, frames>>

clientVars == <<ui, runs, chats>>

analyseVars == <<pc, json, items, idx, minPrice, maxPrice, healthiest,
                 mostFilling, response>>

nameVars == <<name, canon, recanon, calories, npc>>

(***************************************************************************)
(* Bounds.                                                                 *)
(***************************************************************************)
\* longest item list of a request
MaxItems == 3

\* most pieces (words and separators in turn) a generated name is made of
MaxPieces == 3

\* longest item list of a request when two invocations run concurrently
MaxConcItems == 2

(***************************************************************************)
(* Characters.                                                             *)
(***************************************************************************)
UpperCase == <<"A","B","C","D","E","F","G","H","I","J","K","L","M",
               "N","O","P","Q","R","S","T","U","V","W","X","Y","Z">>

LowerCase == <<"a","b","c","d","e","f","g","h","i","j","k","l","m",
               "n","o","p","q","r","s","t","u","v","w","x","y","z">>

Digits == {"0","1","2","3","4","5","6","7","8","9"}

Range(f) == {f[i] : i \in DOMAIN f}

\* the class \s of a JavaScript regular expression, which is also what
\* String.prototype.trim strips (space and tab stand for the class)
IsSpace(c) == c \in {" ", "\t"}

\* the class \w: [A-Za-z0-9_]
WordChars == Range(UpperCase) \cup Range(LowerCase) \cup Digits \cup {"_"}

IsWordChar(c) == c \in WordChars

LowerOf ==
  [c \in Range(UpperCase) |->
     LowerCase[CHOOSE i \in DOMAIN UpperCase : UpperCase[i] = c]]

toLowerCaseChar(c) == IF c \in DOMAIN LowerOf THEN LowerOf[c] ELSE c

\* String.prototype.toLowerCase
toLowerCase(s) == [i \in DOMAIN s |-> toLowerCaseChar(s[i])]

(***************************************************************************)
(* Words of the rules.                                                     *)
(***************************************************************************)
mee == <<"m","e","e">>
nasi == <<"n","a","s","i">>
bee == <<"b","e","e">>
hoon == <<"h","o","o","n">>
beeHoon == bee \o <<" ">> \o hoon
noodle == <<"n","o","o","d","l","e">>
rice == <<"r","i","c","e">>
vermicelli == <<"v","e","r","m","i","c","e","l","l","i">>
riceVermicelli == rice \o <<" ">> \o vermicelli
chicken == <<"c","h","i","c","k","e","n">>
hainanese == <<"h","a","i","n","a","n","e","s","e">>
fish == <<"f","i","s","h">>
soup == <<"s","o","u","p">>
yong == <<"y","o","n","g">>
tau == <<"t","a","u">>
foo == <<"f","o","o">>
ban == <<"b","a","n">>
mian == <<"m","i","a","n">>
laksa == <<"l","a","k","s","a">>
char == <<"c","h","a","r">>
kway == <<"k","w","a","y">>
teow == <<"t","e","o","w">>
economic == <<"e","c","o","n","o","m","i","c">>
mixed == <<"m","i","x","e","d">>
veg == <<"v","e","g">>
fishball == <<"f","i","s","h","b","a","l","l">>
duck == <<"d","u","c","k">>

(***************************************************************************)
(* canonicaliseName, route.ts:19-27.                                       *)
(***************************************************************************)
\* \b at the position before s[p]: exactly one of s[p-1], s[p] is a \w
\* character (outside the string counts as not \w)
WordBoundary(s, p) ==
  LET before == p > 1 /\ p - 1 <= Len(s) /\ IsWordChar(s[p - 1])
      after == p >= 1 /\ p <= Len(s) /\ IsWordChar(s[p])
  IN  before # after

WordAtAnywhere(s, w, i) ==
  /\ i + Len(w) - 1 <= Len(s)
  /\ \A k \in 1..Len(w) : s[i + k - 1] = w[k]

\* /\bw\b/ matches at position i of s
WordAt(s, w, i) ==
  /\ i + Len(w) - 1 <= Len(s)
  /\ \A k \in 1..Len(w) : s[i + k - 1] = w[k]
  /\ WordBoundary(s, i)
  /\ WordBoundary(s, i + Len(w))

RECURSIVE ReplaceFrom(_, _, _, _)
ReplaceFrom(s, w, r, i) ==
  IF i > Len(s) THEN <<>>
  ELSE IF WordAt(s, w, i) THEN r \o ReplaceFrom(s, w, r, i + Len(w))
  ELSE <<s[i]>> \o ReplaceFrom(s, w, r, i + 1)

\* s.replace(/\bw\b/g, r): the matches are taken left to right and do
\* not overlap
ReplaceWord(s, w, r) == ReplaceFrom(s, w, r, 1)

RECURSIVE CollapseFrom(_, _)
CollapseFrom(s, i) ==
  IF i > Len(s) THEN <<>>
  ELSE IF IsSpace(s[i])
    THEN IF i > 1 /\ IsSpace(s[i - 1])
           THEN CollapseFrom(s, i + 1)
           ELSE <<" ">> \o CollapseFrom(s, i + 1)
  ELSE <<s[i]>> \o CollapseFrom(s, i + 1)

\* s.replace(/\s+/g, " "): every maximal run of whitespace becomes one space
CollapseSpaces(s) == CollapseFrom(s, 1)

\* String.prototype.trim
trim(s) ==
  LET keep == {i \in DOMAIN s : ~IsSpace(s[i])}
  IN  IF keep = {} THEN <<>>
      ELSE LET lo == CHOOSE i \in keep : \A j \in keep : i <= j
               hi == CHOOSE i \in keep : \A j \in keep : j <= i
           IN  SubSeq(s, lo, hi)

canonicaliseName(n) ==
  LET lower == toLowerCase(n)
  IN  trim(CollapseSpaces(
        ReplaceWord(ReplaceWord(ReplaceWord(lower, mee, noodle), nasi, rice),
                    beeHoon, riceVermicelli)))

(***************************************************************************)
(* estimateCalories, route.ts:29-42.                                       *)
(***************************************************************************)
\* elements of a pattern other than literal characters
WS0 == "\\s*"
WS1 == "\\s+"

RECURSIVE MatchHere(_, _, _, _)
MatchHere(p, pi, s, si) ==
  IF pi > Len(p) THEN TRUE
  ELSE IF p[pi] = WS0
    THEN \/ MatchHere(p, pi + 1, s, si)
         \/ si <= Len(s) /\ IsSpace(s[si]) /\ MatchHere(p, pi, s, si + 1)
  ELSE IF p[pi] = WS1
    THEN /\ si <= Len(s)
         /\ IsSpace(s[si])
         /\ \/ MatchHere(p, pi + 1, s, si + 1)
            \/ MatchHere(p, pi, s, si + 1)
  ELSE si <= Len(s) /\ s[si] = p[pi] /\ MatchHere(p, pi + 1, s, si + 1)

\* /(a1|a2|...)/.test(s): some alternative matches somewhere in s
Test(alternatives, s) ==
  \E a \in alternatives : \E i \in 1..(Len(s) + 1) : MatchHere(a, 1, s, i)

reChickenRice == {chicken \o <<WS1>> \o rice, hainanese \o <<WS1>> \o chicken}
reFishSoup == {fish \o <<WS0>> \o soup}
reYongTauFoo == {yong \o <<WS0>> \o tau \o <<WS0>> \o foo}
reBanMian == {ban \o <<WS0>> \o mian, noodle \o <<WS0>> \o soup}
reLaksa == {laksa}
reCharKwayTeow == {char \o <<WS0>> \o kway \o <<WS0>> \o teow}
reEconomicRice == {economic \o <<WS0>> \o rice, mixed \o <<WS0>> \o veg}
reFishballNoodle == {fishball \o <<WS0>> \o noodle}
reDuckRice == {duck \o <<WS0>> \o rice}

estimateCaloriesLaksaFirst(nm) ==
  LET n == canonicaliseName(nm)
  IN  IF Test(reChickenRice, n) THEN <<550, 700>>
      ELSE IF Test(reLaksa, n) THEN <<600, 900>>
      ELSE IF Test(reFishSoup, n) THEN <<250, 380>>
      ELSE IF Test(reYongTauFoo, n) THEN <<300, 500>>
      ELSE IF Test(reBanMian, n) THEN <<450, 650>>
      ELSE IF Test(reCharKwayTeow, n) THEN <<740, 950>>
      ELSE IF Test(reEconomicRice, n) THEN <<500, 800>>
      ELSE IF Test(reFishballNoodle, n) THEN <<400, 600>>
      ELSE IF Test(reDuckRice, n) THEN <<600, 800>>
      ELSE <<350, 700>>

estimateCalories(nm) ==
  LET n == canonicaliseName(nm)
  IN  IF Test(reChickenRice, n) THEN <<550, 700>>
      ELSE IF Test(reFishSoup, n) THEN <<250, 380>>
      ELSE IF Test(reYongTauFoo, n) THEN <<300, 500>>
      ELSE IF Test(reBanMian, n) THEN <<450, 650>>
      ELSE IF Test(reLaksa, n) THEN <<600, 900>>
      ELSE IF Test(reCharKwayTeow, n) THEN <<740, 950>>
      ELSE IF Test(reEconomicRice, n) THEN <<500, 800>>
      ELSE IF Test(reFishballNoodle, n) THEN <<400, 600>>
      ELSE IF Test(reDuckRice, n) THEN <<600, 800>>
      ELSE <<350, 700>>

\* route.ts:44-46
isFilling(cal) == cal[1] >= 450

(***************************************************************************)
(* Numbers of the payload.                                                 *)
(***************************************************************************)
Num(v) == [k |-> "num", v |-> v]
PosInf == [k |-> "Infinity", v |-> 0]
NegInf == [k |-> "-Infinity", v |-> 0]
NaN == [k |-> "NaN", v |-> 0]
Undefined == [k |-> "undefined", v |-> 0]
JNull == [k |-> "null", v |-> 0]

\* a < b of JavaScript numbers
NumLt(a, b) ==
  IF a.k = "NaN" \/ b.k = "NaN" THEN FALSE
  ELSE IF a.k = "-Infinity" THEN b.k # "-Infinity"
  ELSE IF a.k = "Infinity" THEN FALSE
  ELSE IF b.k = "Infinity" THEN TRUE
  ELSE IF b.k = "-Infinity" THEN FALSE
  ELSE a.v < b.v

\* a === b of JavaScript numbers
NumEq(a, b) == a.k # "NaN" /\ a = b

(***************************************************************************)
(* ItemsSchema, route.ts:6-15, and its safeParse.                          *)
(***************************************************************************)
Issue(code, index, key) == [code |-> code, index |-> index, key |-> key]

\* z.string()
nameIssues(it, i) ==
  IF it.nameIsString THEN <<>> ELSE <<Issue("invalid_type", i, "name")>>

priceIssuesNoFinite(p, i) ==
  IF p.k \in {"undefined", "NaN", "null"} THEN <<Issue("invalid_type", i, "price")>>
  ELSE IF NumLt(p, Num(0)) THEN <<Issue("too_small", i, "price")>>
  ELSE <<>>

\* z.number().min(0).finite()
priceIssues(p, i) ==
  IF p.k \in {"undefined", "NaN", "null"} THEN <<Issue("invalid_type", i, "price")>>
  ELSE (IF NumLt(p, Num(0)) THEN <<Issue("too_small", i, "price")>> ELSE <<>>)
       \o (IF p.k \in {"Infinity", "-Infinity"}
             THEN <<Issue("not_finite", i, "price")>> ELSE <<>>)

arrayIssuesNoMin(its) == <<>>

\* .min(1, "At least one item is required")
arrayIssues(its) ==
  IF Len(its) < 1 THEN <<Issue("too_small", -1, "items")>> ELSE <<>>

RECURSIVE elementIssues(_, _)
elementIssues(its, i) ==
  IF i > Len(its) THEN <<>>
  ELSE nameIssues(its[i], i - 1) \o priceIssues(its[i].price, i - 1)
       \o elementIssues(its, i + 1)

\* ItemsSchema.safeParse(json)
safeParse(j) ==
  LET issues == IF j.kind # "items"
                  THEN <<Issue("invalid_type", -1, "items")>>
                  ELSE arrayIssues(j.items) \o elementIssues(j.items, 1)
  IN  [success |-> issues = <<>>, issues |-> issues]

(***************************************************************************)
(* The request bodies the handler is run on.                               *)
(***************************************************************************)
chickenRice == chicken \o <<" ">> \o rice
fishSoup == fish \o <<" ">> \o soup
MeeSoup == <<"M","e","e"," "," ","S","o","u","p">>

ItemNames == {chickenRice, fishSoup, MeeSoup, <<>>, <<" ">>}
ValidPrices == {Num(0), Num(1), Num(2)}
BadPrices == {Num(-1), PosInf, NegInf, NaN, Undefined}

RawItems ==
  [name : ItemNames, nameIsString : {TRUE}, price : ValidPrices]
  \cup [name : {fishSoup}, nameIsString : {TRUE}, price : BadPrices]
  \cup [name : {<<>>}, nameIsString : {FALSE}, price : {Num(1)}]

ItemLists == UNION {[1..n -> RawItems] : n \in 0..MaxItems}

Bodies ==
  {[kind |-> "malformed", items |-> <<>>], [kind |-> "noitems", items |-> <<>>]}
  \cup {[kind |-> "items", items |-> its] : its \in ItemLists}

(***************************************************************************)
(* The POST handler, route.ts:48-132.                                      *)
(***************************************************************************)
Null == [null |-> TRUE]
NoBody == [kind |-> "none", items |-> <<>>]
NoResponse == [status |-> 0, body |-> [pending |-> TRUE]]

followUpQuestions ==
  << "Show me the cheapest and most expensive again.",
     "Which options are vegetarian?",
     "How can I make the healthiest option more filling?" >>

mapItemKeepName(it) ==
  [name |-> it.name,
   price |-> it.price,
   calories |-> estimateCalories(it.name)]

\* route.ts:59-63
mapItem(it) ==
  [name |-> canonicaliseName(it.name),
   price |-> it.price,
   calories |-> estimateCalories(it.name)]

initMinPriceZero == Num(0)

\* route.ts:71
initMinPrice == PosInf

\* route.ts:72
initMaxPrice == NegInf

\* route.ts:75-77
nextMinPrice(item, m) == IF NumLt(item.price, m) THEN item.price ELSE m

\* route.ts:78-80
nextMaxPrice(item, m) == IF NumLt(m, item.price) THEN item.price ELSE m

nextHealthiestByLow(item, h) ==
  IF h = Null \/ item.calories[1] < h.calories[1] THEN item ELSE h

nextHealthiestLastWins(item, h) ==
  IF h = Null \/ item.calories[2] <= h.calories[2] THEN item ELSE h

\* route.ts:81-83
nextHealthiest(item, h) ==
  IF h = Null \/ item.calories[2] < h.calories[2] THEN item ELSE h

nextMostFillingByLow(item, m) ==
  IF m = Null \/ item.calories[1] > m.calories[1] THEN item ELSE m

\* route.ts:84-86
nextMostFilling(item, m) ==
  IF m = Null \/ item.calories[2] > m.calories[2] THEN item ELSE m

filterByPriceTruthy(its, p) ==
  SelectSeq(its, LAMBDA it : it.price # Num(0) /\ NumEq(it.price, p))

\* items.filter((it) => it.price === p), route.ts:89-90
filterByPrice(its, p) == SelectSeq(its, LAMBDA it : NumEq(it.price, p))

\* the object literals of route.ts:93-116
pick(c) == [name |-> c.name, price |-> c.price, calories |-> c.calories]

pickAll(cs) == [i \in DOMAIN cs |-> pick(cs[i])]

cheapestOf(its, m) == pickAll(filterByPrice(its, m))

mostExpensiveFirstOnly(its, m) ==
  LET all == filterByPrice(its, m)
  IN  IF all = <<>> THEN <<>> ELSE <<pick(all[1])>>

mostExpensiveOf(its, m) == pickAll(filterByPrice(its, m))

\* await req.json(), route.ts:50; a body that is not JSON makes it throw,
\* which the catch of route.ts:125-131 answers
POST_readJson ==
  /\ pc = "start"
  /\ \E b \in Bodies :
       /\ json' = b
       /\ IF b.kind = "malformed"
            THEN /\ response' = [status |-> 500,
                                 body |-> [error |-> "Unexpected server error"]]
                 /\ pc' = "done"
            ELSE /\ response' = response
                 /\ pc' = "parse"
  /\ UNCHANGED <<items, idx, minPrice, maxPrice, healthiest, mostFilling>>

\* route.ts:51-57
POST_safeParse ==
  /\ pc = "parse"
  /\ LET parsed == safeParse(json)
     IN  IF ~parsed.success
           THEN /\ response' = [status |-> 400,
                                body |-> [error |-> "Invalid payload",
                                          issues |-> parsed.issues]]
                /\ pc' = "done"
           ELSE /\ response' = response
                /\ pc' = "map"
  /\ UNCHANGED <<json, items, idx, minPrice, maxPrice, healthiest, mostFilling>>

\* route.ts:59-72
POST_map ==
  /\ pc = "map"
  /\ items' = [i \in DOMAIN json.items |-> mapItem(json.items[i])]
  /\ healthiest' = Null
  /\ mostFilling' = Null
  /\ minPrice' = initMinPrice
  /\ maxPrice' = initMaxPrice
  /\ idx' = 1
  /\ pc' = "loop"
  /\ UNCHANGED <<json, response>>

\* one iteration of the loop of route.ts:74-87
POST_loop ==
  /\ pc = "loop"
  /\ idx <= Len(items)
  /\ LET item == items[idx]
     IN  /\ minPrice' = nextMinPrice(item, minPrice)
         /\ maxPrice' = nextMaxPrice(item, maxPrice)
         /\ healthiest' = nextHealthiest(item, healthiest)
         /\ mostFilling' = nextMostFilling(item, mostFilling)
  /\ idx' = idx + 1
  /\ UNCHANGED <<pc, json, items, response>>

\* route.ts:89-124
POST_respond ==
  /\ pc = "loop"
  /\ idx > Len(items)
  /\ response' =
       [status |-> 200,
        body |-> [cheapest |-> cheapestOf(items, minPrice),
                  most_expensive |-> mostExpensiveOf(items, maxPrice),
                  healthiest |-> IF healthiest # Null THEN pick(healthiest) ELSE Null,
                  most_filling |-> IF mostFilling # Null THEN pick(mostFilling) ELSE Null,
                  follow_up_questions |-> followUpQuestions]]
  /\ pc' = "done"
  /\ UNCHANGED <<json, items, idx, minPrice, maxPrice, healthiest, mostFilling>>

concIdle == calls = <<>> /\ frames = <<>>

extractIdle == extract = [pc |-> "off"]

clientIdle == ui = [phase |-> "off"] /\ runs = <<>> /\ chats = <<>>

nameIdle ==
  /\ name = <<>>
  /\ canon = <<>>
  /\ recanon = <<>>
  /\ calories = <<0, 0>>
  /\ npc = "off"

Init ==
  /\ pc = "start"
  /\ json = NoBody
  /\ items = <<>>
  /\ idx = 1
  /\ minPrice = initMinPrice
  /\ maxPrice = initMaxPrice
  /\ healthiest = Null
  /\ mostFilling = Null
  /\ response = NoResponse
  /\ nameIdle
  /\ concIdle
  /\ extractIdle
  /\ clientIdle

Next ==
  \/ /\ POST_readJson
     /\ UNCHANGED <<nameVars, concVars, extract, clientVars>>
  \/ /\ POST_safeParse
     /\ UNCHANGED <<nameVars, concVars, extract, clientVars>>
  \/ /\ POST_map
     /\ UNCHANGED <<nameVars, concVars, extract, clientVars>>
  \/ /\ POST_loop
     /\ UNCHANGED <<nameVars, concVars, extract, clientVars>>
  \/ /\ POST_respond
     /\ UNCHANGED <<nameVars, concVars, extract, clientVars>>

(***************************************************************************)
(* The name functions on their own: canonicaliseName applied once and      *)
(* twice, and estimateCalories, on names put together from words of the    *)
(* rules and separators, a word and a separator in turn.                   *)
(***************************************************************************)
Separators == {<<>>, <<" ">>, <<" ", " ">>, <<"\t">>, <<"-">>, <<"_">>}

Words ==
  {<<>>, mee, <<"M","e","e">>, nasi, bee, hoon, soup,
   chickenRice, hainanese \o <<" ">> \o chicken, fishSoup,
   yong \o tau \o foo, ban \o <<" ">> \o mian, <<"L","a","k","s","a">>,
   char \o <<" ">> \o kway \o <<" ">> \o teow, mixed \o <<" ">> \o veg,
   fishball, duck, economic, <<"k","o","l","o">> \o mee}

\* the names of n pieces: words at the odd places, separators at the even
RECURSIVE NamesOf(_)
NamesOf(n) ==
  IF n = 0 THEN {<<>>}
  ELSE {nm \o p : nm \in NamesOf(n - 1),
                  p \in IF n % 2 = 1 THEN Words ELSE Separators}

Names == NamesOf(MaxPieces)

analyseIdle ==
  /\ pc = "off"
  /\ json = NoBody
  /\ items = <<>>
  /\ idx = 1
  /\ minPrice = initMinPrice
  /\ maxPrice = initMaxPrice
  /\ healthiest = Null
  /\ mostFilling = Null
  /\ response = NoResponse

InitName ==
  /\ name \in Names
  /\ canon = <<>>
  /\ recanon = <<>>
  /\ calories = <<0, 0>>
  /\ npc = "input"
  /\ analyseIdle
  /\ concIdle
  /\ extractIdle
  /\ clientIdle

\* canonicaliseName(name)
Canonicalise ==
  /\ npc = "input"
  /\ canon' = canonicaliseName(name)
  /\ npc' = "canonical"
  /\ UNCHANGED <<name, recanon, calories>>

\* canonicaliseName(canonicaliseName(name))
Recanonicalise ==
  /\ npc = "canonical"
  /\ recanon' = canonicaliseName(canon)
  /\ npc' = "recanonical"
  /\ UNCHANGED <<name, canon, calories>>

\* estimateCalories(name)
Estimate ==
  /\ npc = "input"
  /\ calories' = estimateCalories(name)
  /\ npc' = "estimated"
  /\ UNCHANGED <<name, canon, recanon>>

NextName ==
  \/ /\ Canonicalise
     /\ UNCHANGED <<analyseVars, concVars, extract, clientVars>>
  \/ /\ Recanonicalise
     /\ UNCHANGED <<analyseVars, concVars, extract, clientVars>>
  \/ /\ Estimate
     /\ UNCHANGED <<analyseVars, concVars, extract, clientVars>>

SpecName == InitName /\ [][NextName]_vars

Spec == Init /\ [][Next]_vars

(***************************************************************************)
(* Properties of the analysis.                                             *)
(***************************************************************************)
ResultFields ==
  {"cheapest", "most_expensive", "healthiest", "most_filling",
   "follow_up_questions"}

\* a negative, non-finite or missing price
BadPrice(p) == p.k # "num" \/ p.v < 0

\* the request is a non-empty list of items that each have a string name and
\* a finite price >= 0
ValidRequest ==
  /\ json.kind = "items"
  /\ Len(json.items) >= 1
  /\ \A i \in DOMAIN json.items :
       json.items[i].nameIsString /\ ~BadPrice(json.items[i].price)

\* the handler answered a valid request: with the analysis of all its items
Analysed ==
  /\ pc = "done"
  /\ response.status = 200
  /\ Len(items) = Len(json.items)
  /\ \A i \in DOMAIN items : items[i].price = json.items[i].price

PricesOf(its) == {its[i].price.v : i \in DOMAIN its}
HighsOf(its) == {its[i].calories[2] : i \in DOMAIN its}
MinOf(S) == CHOOSE m \in S : \A x \in S : m <= x
MaxOf(S) == CHOOSE m \in S : \A x \in S : m >= x

\* the items of its whose price is v, in the order of its
WithPrice(its, v) == SelectSeq(its, LAMBDA it : it.price.v = v)

\* the first position of its whose calorie upper bound is v
FirstWithHigh(its, v) ==
  CHOOSE i \in DOMAIN its :
    /\ its[i].calories[2] = v
    /\ \A j \in 1..(i - 1) : its[j].calories[2] # v

\* C1: for a non-empty valid item list, cheapest is exactly the items whose
\* price is the minimum price of the list, in input order
C1_Cheapest ==
  (pc = "done" /\ ValidRequest) =>
    /\ Analysed
    /\ response.body.cheapest = WithPrice(items, MinOf(PricesOf(items)))

\* two items that are not neighbours and differ tie for the minimum price
C1_Witness ==
  /\ pc = "done" /\ ValidRequest /\ response.status = 200
  /\ Len(items) = 3
  /\ items[1] # items[3]
  /\ items[2].price.v > items[1].price.v
  /\ response.body.cheapest = <<items[1], items[3]>>

\* C2: for a non-empty valid item list, most_expensive is exactly the items
\* whose price is the maximum price of the list, in input order; when all
\* items have one price, cheapest and most_expensive are both the whole list
C2_MostExpensive ==
  (pc = "done" /\ ValidRequest) =>
    /\ Analysed
    /\ response.body.most_expensive = WithPrice(items, MaxOf(PricesOf(items)))
    /\ Cardinality(PricesOf(items)) = 1 =>
         /\ response.body.cheapest = items
         /\ response.body.most_expensive = items

\* two different items tie for the maximum price, a cheaper one between them
C2_Witness ==
  /\ pc = "done" /\ ValidRequest /\ response.status = 200
  /\ Len(items) = 3
  /\ items[1] # items[3]
  /\ items[2].price.v < items[1].price.v
  /\ response.body.most_expensive = <<items[1], items[3]>>

\* C3: for a non-empty valid item list, healthiest is an item of the list
\* whose calorie upper bound is <= that of every item of the list
C3_Healthiest ==
  (pc = "done" /\ ValidRequest) =>
    /\ Analysed
    /\ response.body.healthiest # Null
    /\ \E i \in DOMAIN items : response.body.healthiest = items[i]
    /\ \A i \in DOMAIN items :
         response.body.healthiest.calories[2] <= items[i].calories[2]

\* the healthiest item is not the first one, and an item with a smaller
\* lower bound but a larger upper bound was passed over
C3_Witness ==
  /\ pc = "done" /\ ValidRequest /\ response.status = 200
  /\ response.body.healthiest # items[1]
  /\ \E i \in DOMAIN items :
       /\ items[i].calories[1] < response.body.healthiest.calories[1]
       /\ items[i].calories[2] > response.body.healthiest.calories[2]

\* C4: for a non-empty valid item list, most_filling is an item of the list
\* whose calorie upper bound is >= that of every item of the list, whatever
\* the lower bounds and isFilling say
C4_MostFilling ==
  (pc = "done" /\ ValidRequest) =>
    /\ Analysed
    /\ response.body.most_filling # Null
    /\ \E i \in DOMAIN items : response.body.most_filling = items[i]
    /\ \A i \in DOMAIN items :
         response.body.most_filling.calories[2] >= items[i].calories[2]

\* the selected item is not filling by isFilling, while an item that is
\* filling and has a larger lower bound was passed over
C4_Witness ==
  /\ pc = "done" /\ ValidRequest /\ response.status = 200
  /\ ~isFilling(response.body.most_filling.calories)
  /\ \E i \in DOMAIN items :
       /\ isFilling(items[i].calories)
       /\ items[i].calories[1] > response.body.most_filling.calories[1]
       /\ items[i].calories[2] < response.body.most_filling.calories[2]

\* C5: healthiest and most_filling are first-seen-wins: after any number of
\* loop iterations the candidates are the first of the items scanned so far
\* with the smallest (largest) calorie upper bound, and so are the items of
\* the response
C5_FirstSeenWins ==
  LET scanned == SubSeq(items, 1, idx - 1)
      firstMin == scanned[FirstWithHigh(scanned, MinOf(HighsOf(scanned)))]
      firstMax == scanned[FirstWithHigh(scanned, MaxOf(HighsOf(scanned)))]
  IN  /\ (pc = "loop" /\ scanned = <<>>) =>
           healthiest = Null /\ mostFilling = Null
      /\ (pc = "loop" /\ scanned # <<>>) =>
           healthiest = firstMin /\ mostFilling = firstMax
      /\ (pc = "done" /\ ValidRequest) =>
           /\ Analysed
           /\ scanned = items
           /\ response.body.healthiest = firstMin
           /\ response.body.most_filling = firstMax

\* two different items tie for the smallest and for the largest upper bound,
\* and the earlier one is returned for both
C5_Witness ==
  /\ pc = "done" /\ ValidRequest /\ response.status = 200
  /\ \E i, j \in DOMAIN items :
       /\ i < j
       /\ items[i] # items[j]
       /\ items[i].calories[2] = items[j].calories[2]
       /\ items[i].calories[2] = MinOf(HighsOf(items))
       /\ items[i].calories[2] = MaxOf(HighsOf(items))
       /\ response.body.healthiest = items[i]
       /\ response.body.most_filling = items[i]

\* the response is a validation error: a client-error status, a list of
\* issues, and no field of an analysis result
ValidationError ==
  /\ response.status \in 400..499
  /\ "issues" \in DOMAIN response.body
  /\ Len(response.body.issues) >= 1
  /\ DOMAIN response.body \cap ResultFields = {}

\* C7: a request whose items list is empty is answered with a validation
\* error that carries no part of an analysis result
C7_EmptyRejected ==
  (json.kind = "items" /\ json.items = <<>>) =>
    /\ pc \in {"parse", "done"}
    /\ pc = "done" => ValidationError

C7_Witness ==
  /\ pc = "done"
  /\ json.kind = "items"
  /\ json.items = <<>>
  /\ response.status = 400

\* C8: a request in which some item has a negative, non-finite or missing
\* price is rejected as a whole with a validation error that names that
\* price, and no item is ever mapped or scanned
C8_BadPriceRejected ==
  \A i \in DOMAIN json.items :
    (json.kind = "items" /\ BadPrice(json.items[i].price)) =>
      /\ pc \in {"parse", "done"}
      /\ items = <<>>
      /\ healthiest = Null
      /\ mostFilling = Null
      /\ pc = "done" =>
           /\ ValidationError
           /\ \E k \in DOMAIN response.body.issues :
                /\ response.body.issues[k].index = i - 1
                /\ response.body.issues[k].key = "price"

\* one item has a bad price, all the others are valid
C8_Witness ==
  /\ pc = "done"
  /\ json.kind = "items"
  /\ Len(json.items) = 3
  /\ BadPrice(json.items[2].price)
  /\ \A i \in {1, 3} :
       json.items[i].nameIsString /\ ~BadPrice(json.items[i].price)
  /\ response.status = 400

\* C9: a request in which some item has an empty name (empty, or empty after
\* trimming) is answered with a validation error and no analysis result
C9_EmptyNameRejected ==
  (/\ pc = "done"
   /\ json.kind = "items"
   /\ \E i \in DOMAIN json.items :
        json.items[i].nameIsString /\ trim(json.items[i].name) = <<>>)
    => ValidationError

(***************************************************************************)
(* Properties of the name functions.                                       *)
(***************************************************************************)
\* C6: canonicaliseName(canonicaliseName(x)) = canonicaliseName(x)
C6_Idempotent == npc = "recanonical" => recanon = canon

\* the rules in the order the claim lists them
RuleTable ==
  << [re |-> reChickenRice, range |-> <<550, 700>>],
     [re |-> reFishSoup, range |-> <<250, 380>>],
     [re |-> reYongTauFoo, range |-> <<300, 500>>],
     [re |-> reBanMian, range |-> <<450, 650>>],
     [re |-> reLaksa, range |-> <<600, 900>>],
     [re |-> reCharKwayTeow, range |-> <<740, 950>>],
     [re |-> reEconomicRice, range |-> <<500, 800>>],
     [re |-> reFishballNoodle, range |-> <<400, 600>>],
     [re |-> reDuckRice, range |-> <<600, 800>> ] >>

FallbackRange == <<350, 700>>

\* the rules whose pattern matches the canonical name c
Matching(c) == {k \in DOMAIN RuleTable : Test(RuleTable[k].re, c)}

\* C10: the range returned for a name is that of the earliest rule whose
\* pattern matches its canonical name, and it is the fallback range exactly
\* when no rule matches
C10_FirstMatchWins ==
  npc = "estimated" =>
    LET matching == Matching(canonicaliseName(name))
    IN  /\ matching # {} => calories = RuleTable[MinOf(matching)].range
        /\ calories = FallbackRange <=> matching = {}

\* two rules match the canonical name, the later one not the name as
\* written, and the range is the earlier rule's, not the later rule's
C10_Witness ==
  /\ npc = "estimated"
  /\ \E k1, k2 \in Matching(canonicaliseName(name)) :
       /\ k1 < k2
       /\ ~Test(RuleTable[k2].re, name)
       /\ calories = RuleTable[k1].range
       /\ calories # RuleTable[k2].range

(***************************************************************************)
(* Further properties of the analysis.                                     *)
(***************************************************************************)
\* the response is a complete analysis result
CompleteResult ==
  /\ response.status = 200
  /\ DOMAIN response.body = ResultFields

\* C11: every request, whatever its body, ends with a complete analysis
\* result or with a validation error that carries a list of issues
C11_OnlyValidationError ==
  pc = "done" => (CompleteResult \/ ValidationError)

\* C12: for every input that passes validation, cheapest and most_expensive
\* have at least one element and healthiest and most_filling are not null
C12_NeverEmpty ==
  (pc = "done" /\ ValidRequest) =>
    /\ CompleteResult
    /\ Len(response.body.cheapest) >= 1
    /\ Len(response.body.most_expensive) >= 1
    /\ response.body.healthiest # Null
    /\ response.body.most_filling # Null

\* a single item of price 0
C12_Witness ==
  /\ pc = "done" /\ ValidRequest
  /\ Len(json.items) = 1
  /\ json.items[1].price = Num(0)
  /\ response.status = 200
  /\ Len(response.body.cheapest) = 1
  /\ Len(response.body.most_expensive) = 1
  /\ response.body.healthiest # Null
  /\ response.body.most_filling # Null

\* the range of the first rule of the table whose pattern matches c, the
\* fallback range when none does
TableRange(c) ==
  IF Matching(c) = {} THEN FallbackRange
  ELSE RuleTable[MinOf(Matching(c))].range

\* the items of all fields of a result
ResultItems ==
  Range(response.body.cheapest) \cup Range(response.body.most_expensive)
  \cup ({response.body.healthiest, response.body.most_filling} \ {Null})

\* C13: every item of the result comes from one input item: its price is that
\* item's price, its name the canonical form of that item's name, and its
\* calorie range the one the rule table gives for the output name
C13_ItemsDerived ==
  (pc = "done" /\ response.status = 200) =>
    \A out \in ResultItems :
      /\ DOMAIN out = {"name", "price", "calories"}
      /\ \E i \in DOMAIN json.items :
           /\ out.price = json.items[i].price
           /\ out.name = canonicaliseName(json.items[i].name)
      /\ out.calories = TableRange(out.name)

\* an item whose name as written differs from its canonical name, and is
\* matched by a rule only in its canonical form, is in every field
C13_Witness ==
  /\ pc = "done" /\ response.status = 200
  /\ \E i \in DOMAIN json.items :
       LET out == [name |-> canonicaliseName(json.items[i].name),
                   price |-> json.items[i].price,
                   calories |-> <<450, 650>>]
       IN  /\ json.items[i].name = MeeSoup
           /\ out.name # json.items[i].name
           /\ Matching(json.items[i].name) = {}
           /\ out \in Range(response.body.cheapest)
           /\ out \in Range(response.body.most_expensive)
           /\ out = response.body.healthiest
           /\ out = response.body.most_filling

(***************************************************************************)
(* Whole-word substitution, stated on the words of a name: a word is a     *)
(* maximal run of \w characters, as \b takes it.                           *)
(***************************************************************************)
\* s cut into its words and, one by one, the characters between them
RECURSIVE TokensFrom(_, _, _)
TokensFrom(s, i, cur) ==
  LET word == IF cur = <<>> THEN <<>> ELSE <<cur>>
  IN  IF i > Len(s) THEN word
      ELSE IF IsWordChar(s[i]) THEN TokensFrom(s, i + 1, Append(cur, s[i]))
      ELSE word \o << <<s[i]>> >> \o TokensFrom(s, i + 1, <<>>)

Tokens(s) == TokensFrom(s, 1, <<>>)

\* every word mee, nasi and every bee hoon (two words, one space between)
\* replaced, all else kept
RECURSIVE SubstFrom(_, _)
SubstFrom(ts, i) ==
  IF i > Len(ts) THEN <<>>
  ELSE IF ts[i] = mee THEN noodle \o SubstFrom(ts, i + 1)
  ELSE IF ts[i] = nasi THEN rice \o SubstFrom(ts, i + 1)
  ELSE IF /\ ts[i] = bee
          /\ i + 2 <= Len(ts)
          /\ ts[i + 1] = <<" ">>
          /\ ts[i + 2] = hoon
    THEN riceVermicelli \o SubstFrom(ts, i + 3)
  ELSE ts[i] \o SubstFrom(ts, i + 1)

HasInfix(t, w) ==
  \E i \in 1..(Len(t) - Len(w) + 1) : SubSeq(t, i, i + Len(w) - 1) = w

\* no whitespace at either end, none but single spaces inside
SpacesNormal(s) ==
  /\ \A i \in DOMAIN s : IsSpace(s[i]) => s[i] = " "
  /\ \A i \in DOMAIN s :
       IsSpace(s[i]) => i > 1 /\ i < Len(s) /\ ~IsSpace(s[i + 1])

\* C14: canonicaliseName replaces mee, nasi and bee hoon exactly where they
\* are whole words of the lower-cased name, leaves them alone inside longer
\* words, then collapses runs of whitespace to one space and trims
C14_WholeWords ==
  npc = "canonical" =>
    /\ canon = trim(CollapseSpaces(SubstFrom(Tokens(toLowerCase(name)), 1)))
    /\ SpacesNormal(canon)

\* the name holds mee inside a longer word and mee as a word of its own:
\* the first is kept, the second replaced
C14_Witness ==
  /\ npc = "canonical"
  /\ LET ts == Tokens(toLowerCase(name))
     IN  \E a, b \in DOMAIN ts :
           /\ ts[a] # mee
           /\ HasInfix(ts[a], mee)
           /\ ts[b] = mee
           /\ canon = ts[a] \o <<" ">> \o noodle


(***************************************************************************)
(* Two invocations of POST in flight at once, route.ts:48-132.  Each       *)
(* invocation has its position, its request body and its response; the     *)
(* locals of route.ts:59-72 live in a frame of the invocation.  A finished *)
(* invocation slot takes the next request.                                 *)
(***************************************************************************)
Calls == {1, 2}

ConcItems ==
  { [name |-> chickenRice, nameIsString |-> TRUE, price |-> Num(1)],
    [name |-> MeeSoup, nameIsString |-> TRUE, price |-> Num(2)],
    [name |-> fishSoup, nameIsString |-> TRUE, price |-> Num(-1)] }

ConcLists == UNION { [1..n -> ConcItems] : n \in 0..MaxConcItems }

ConcBodies ==
  { [kind |-> "malformed", items |-> <<>>] } \cup
  { [kind |-> "items", items |-> l] : l \in ConcLists }

\* no locals: before route.ts:59 and after the return
NoFrame ==
  [items |-> <<>>, idx |-> 0, minPrice |-> initMinPrice,
   maxPrice |-> initMaxPrice, healthiest |-> Null, mostFilling |-> Null]

NewCall == [pc |-> "start", json |-> NoBody, response |-> NoResponse]

frameShared(r) == 1

\* const items, let healthiest, ... are declared inside POST, route.ts:59-72:
\* every invocation has its own
frame(r) == r

\* await req.json(), route.ts:50, and the catch of route.ts:125-131
readJson(b) ==
  IF b.kind = "malformed"
    THEN [pc |-> "done", json |-> b,
          response |-> [status |-> 500,
                        body |-> [error |-> "Unexpected server error"]]]
    ELSE [pc |-> "parse", json |-> b, response |-> NoResponse]

\* route.ts:89-124
respond(f) ==
  [status |-> 200,
   body |-> [cheapest |-> cheapestOf(f.items, f.minPrice),
             most_expensive |-> mostExpensiveOf(f.items, f.maxPrice),
             healthiest |-> IF f.healthiest # Null THEN pick(f.healthiest) ELSE Null,
             most_filling |-> IF f.mostFilling # Null THEN pick(f.mostFilling) ELSE Null,
             follow_up_questions |-> followUpQuestions]]

\* one step of POST after the body is read, on the call c and the frame f
\* it works in, route.ts:51-124
handlerStep(c, f) ==
  CASE c.pc = "parse" ->
         LET parsed == safeParse(c.json)
         IN  IF ~parsed.success
               THEN [call |-> [c EXCEPT !.pc = "done",
                                        !.response =
                                          [status |-> 400,
                                           body |-> [error |-> "Invalid payload",
                                                     issues |-> parsed.issues]]],
                     frame |-> f]
               ELSE [call |-> [c EXCEPT !.pc = "map"], frame |-> f]
    [] c.pc = "map" ->
         [call |-> [c EXCEPT !.pc = "loop"],
          frame |-> [items |-> [i \in DOMAIN c.json.items |-> mapItem(c.json.items[i])],
                     idx |-> 1,
                     minPrice |-> initMinPrice,
                     maxPrice |-> initMaxPrice,
                     healthiest |-> Null,
                     mostFilling |-> Null]]
    [] c.pc = "loop" /\ f.idx >= 1 /\ f.idx <= Len(f.items) ->
         LET item == f.items[f.idx]
         IN  [call |-> c,
              frame |-> [f EXCEPT !.idx = f.idx + 1,
                                  !.minPrice = nextMinPrice(item, f.minPrice),
                                  !.maxPrice = nextMaxPrice(item, f.maxPrice),
                                  !.healthiest = nextHealthiest(item, f.healthiest),
                                  !.mostFilling = nextMostFilling(item, f.mostFilling)]]
    [] OTHER ->
         [call |-> [c EXCEPT !.pc = "done", !.response = respond(f)],
          frame |-> NoFrame]

InitConc ==
  /\ calls = [r \in Calls |-> NewCall]
  /\ frames = [r \in Calls |-> NoFrame]
  /\ analyseIdle
  /\ nameIdle
  /\ extractIdle
  /\ clientIdle

\* a request arrives at a free slot and its body is read
Conc_readJson(r) ==
  /\ calls[r].pc \in {"start", "done"}
  /\ \E b \in ConcBodies : calls' = [calls EXCEPT ![r] = readJson(b)]
  /\ UNCHANGED frames

Conc_step(r) ==
  /\ calls[r].pc \in {"parse", "map", "loop"}
  /\ LET n == handlerStep(calls[r], frames[frame(r)])
     IN  /\ calls' = [calls EXCEPT ![r] = n.call]
         /\ frames' = [frames EXCEPT ![frame(r)] = n.frame]

NextConc ==
  \/ /\ \E r \in Calls : Conc_readJson(r)
     /\ UNCHANGED <<analyseVars, nameVars, extract, clientVars>>
  \/ /\ \E r \in Calls : Conc_step(r)
     /\ UNCHANGED <<analyseVars, nameVars, extract, clientVars>>

SpecConc == InitConc /\ [][NextConc]_vars

\* the response of an invocation that runs from beginning to end on its own
RECURSIVE runToEnd(_, _)
runToEnd(c, f) ==
  IF c.pc = "done"
    THEN c.response
    ELSE LET n == handlerStep(c, f) IN runToEnd(n.call, n.frame)

aloneResponse(b) == runToEnd(readJson(b), NoFrame)

AloneResponses == [b \in ConcBodies |-> aloneResponse(b)]

\* C15: the response of an invocation depends on its request body alone:
\* whatever another invocation does in the meantime, and whatever ran in
\* the slot before, a finished invocation has answered what it answers when
\* run alone on its body, so equal bodies get equal responses
C15_Stateless ==
  /\ \A r \in DOMAIN calls :
       calls[r].pc = "done" => calls[r].response = AloneResponses[calls[r].json]
  /\ \A r1, r2 \in DOMAIN calls :
       (calls[r1].pc = "done" /\ calls[r2].pc = "done"
          /\ calls[r1].json = calls[r2].json)
         => calls[r1].response = calls[r2].response

\* one invocation has answered 200 while the other, on another body, is in
\* the middle of its loop
C15_Witness ==
  /\ calls # <<>>
  /\ calls[1].pc = "done"
  /\ calls[1].response.status = 200
  /\ calls[2].pc = "loop"
  /\ frames[frame(2)].idx = 2
  /\ calls[2].json # calls[1].json
  /\ Len(calls[1].json.items) = 2


(***************************************************************************)
(* The extract route, src/src/app/api/extract/route.ts: the checks of the  *)
(* request, the call of the vision model, whose output generateObject      *)
(* validates against RawItemsSchema, and the cleaning of its items.        *)
(***************************************************************************)
\* longest item list the vision model gives
MaxRawItems == 2

\* route.ts:87
fourMB == 4 * 1024 * 1024

ExtractRequests ==
  [multipart : BOOLEAN, hasImage : BOOLEAN,
   type : {"image/png", "image/jpeg", "image/jpg", "", "image/gif"},
   bytes : {0, fourMB, fourMB + 1}]

paddedFishSoup == <<" ">> \o fishSoup \o <<"\t">>

ModelItems ==
  [name : {chickenRice, paddedFishSoup, <<>>, <<" ">>}, nameIsString : {TRUE},
   price : {Num(0), Num(2), JNull}]
  \cup [name : {chickenRice}, nameIsString : {TRUE},
        price : {Num(-1), PosInf, NaN, Undefined}]
  \cup [name : {<<>>}, nameIsString : {FALSE}, price : {Num(1)}]

\* what the vision model answers: a list of items, or an object without items
ModelOutputs ==
  { [hasItems |-> FALSE, items |-> <<>>] } \cup
  { [hasItems |-> TRUE, items |-> l] :
      l \in UNION { [1..n -> ModelItems] : n \in 0..MaxRawItems } }

\* price: z.union([z.number().min(0).finite(), z.null()]), route.ts:26
rawPriceOk(p) == p.k = "null" \/ priceIssues(p, 0) = <<>>

\* RawItemsSchema accepts the output, route.ts:21-30
rawSchemaOk(o) ==
  \A i \in DOMAIN o.items : o.items[i].nameIsString /\ rawPriceOk(o.items[i].price)

\* result.object: names transformed by trim, items defaulted to []
rawParse(o) ==
  [i \in DOMAIN o.items |->
     [name |-> trim(o.items[i].name), price |-> o.items[i].price]]

keepAnyPrice(it) == Len(it.name) > 0

\* the filter of route.ts:124-130
keep(it) ==
  /\ Len(it.name) > 0
  /\ it.price.k \in {"num", "Infinity", "-Infinity", "NaN"}
  /\ it.price.k = "num"
  /\ it.price.v >= 0

\* route.ts:119-130
cleanItems(its) ==
  SelectSeq([i \in DOMAIN its |-> [name |-> trim(its[i].name), price |-> its[i].price]],
            keep)

\* JSON.stringify of a number, in NextResponse.json, route.ts:132
jsonNumber(p) == IF p.k \in {"Infinity", "-Infinity", "NaN"} THEN JNull ELSE p

jsonItems(its) ==
  [i \in DOMAIN its |-> [name |-> its[i].name, price |-> jsonNumber(its[i].price)]]

ExtractError(status, message) ==
  [status |-> status, error |-> message, items |-> <<>>]

InitExtract ==
  /\ \E q \in ExtractRequests :
       extract = [pc |-> "start", req |-> q,
                  output |-> [hasItems |-> FALSE, items |-> <<>>],
                  response |-> [status |-> 0, error |-> "", items |-> <<>>]]
  /\ analyseIdle
  /\ nameIdle
  /\ concIdle
  /\ clientIdle

\* route.ts:54-96
Extract_checkRequest ==
  /\ extract.pc = "start"
  /\ LET q == extract.req
         mimeType == IF q.type = "image/jpg" THEN "image/jpeg"
                     ELSE IF q.type = "" THEN "image/jpeg" ELSE q.type
         refuse(st, msg) ==
           extract' = [extract EXCEPT !.pc = "done",
                                      !.response = ExtractError(st, msg)]
     IN  IF ~q.multipart
           THEN refuse(400, "Expected multipart/form-data with an 'image' field")
         ELSE IF ~q.hasImage
           THEN refuse(400, "Missing image file under field 'image'")
         ELSE IF mimeType \notin {"image/png", "image/jpeg"}
           THEN refuse(400, "Unsupported file type. Please upload a PNG or JPEG image.")
         ELSE IF q.bytes > fourMB
           THEN refuse(413, "Image too large (> 4MB). Please upload a smaller photo or try again.")
         ELSE extract' = [extract EXCEPT !.pc = "generate"]

\* await generateObject(...), route.ts:104-117; it throws when the call fails
\* or the output does not fit RawItemsSchema, and the catch of
\* route.ts:133-154 answers 500
Extract_generate ==
  /\ extract.pc = "generate"
  /\ \/ \E o \in ModelOutputs :
          IF rawSchemaOk(o)
            THEN extract' = [extract EXCEPT !.pc = "clean", !.output = o]
            ELSE extract' = [extract EXCEPT !.pc = "done", !.output = o,
                                            !.response = ExtractError(500, "Unexpected server error")]
     \/ extract' = [extract EXCEPT !.pc = "done",
                                   !.response = ExtractError(500, "Unexpected server error")]

\* route.ts:119-132
Extract_clean ==
  /\ extract.pc = "clean"
  /\ extract' = [extract EXCEPT
                   !.pc = "done",
                   !.response = [status |-> 200, error |-> "",
                                 items |-> jsonItems(cleanItems(rawParse(extract.output)))]]

NextExtract ==
  \/ /\ Extract_checkRequest
     /\ UNCHANGED <<analyseVars, nameVars, concVars, clientVars>>
  \/ /\ Extract_generate
     /\ UNCHANGED <<analyseVars, nameVars, concVars, clientVars>>
  \/ /\ Extract_clean
     /\ UNCHANGED <<analyseVars, nameVars, concVars, clientVars>>

SpecExtract == InitExtract /\ [][NextExtract]_vars

\* the body the page sends to analyse for a list of extracted items
analyseBody(its) ==
  [kind |-> "items",
   items |-> [i \in DOMAIN its |->
                [name |-> its[i].name, nameIsString |-> TRUE, price |-> its[i].price]]]

RECURSIVE IsSubsequence(_, _)
IsSubsequence(a, b) ==
  IF a = <<>> THEN TRUE
  ELSE IF b = <<>> THEN FALSE
  ELSE IF Head(a) = Head(b) THEN IsSubsequence(Tail(a), Tail(b))
  ELSE IsSubsequence(a, Tail(b))

Extracted == extract.pc = "done" /\ extract.response.status = 200

GoodItem(it) ==
  /\ trim(it.name) # <<>>
  /\ it.price.k = "num"
  /\ it.price.v >= 0

\* C16: every item the extract endpoint returns has a non-empty trimmed
\* name and a finite price of at least 0 (none has a null price); the
\* returned items are the good items of the model's output, in their order;
\* and a returned list that is not empty passes the validation of analyse
C16_ExtractFiltered ==
  Extracted =>
    LET out == extract.response.items
        given == [i \in DOMAIN extract.output.items |->
                    [name |-> trim(extract.output.items[i].name),
                     price |-> extract.output.items[i].price]]
    IN  /\ \A i \in DOMAIN out : GoodItem(out[i]) /\ out[i].name = trim(out[i].name)
        /\ IsSubsequence(out, given)
        /\ Len(out) = Cardinality({i \in DOMAIN given : GoodItem(given[i])})
        /\ Len(out) >= 1 => safeParse(analyseBody(out)).success

\* the model gave an item with a null price and a good item with a padded
\* name, and the good item alone is returned
C16_Witness ==
  /\ extract.pc = "done"
  /\ extract.response.status = 200
  /\ Len(extract.output.items) = 2
  /\ extract.output.items[1].price = JNull
  /\ extract.output.items[1].name = chickenRice
  /\ extract.output.items[2].name = paddedFishSoup
  /\ extract.response.items = <<[name |-> fishSoup, price |-> Num(2)]>>


(***************************************************************************)
(* The page, src/README.md:205-422: the state hooks, onFileChange and      *)
(* processImage.  A run of processImage is cut at its awaits; the state    *)
(* updates between two awaits are applied together.  A nullable state is   *)
(* None or Some(value).                                                    *)
(***************************************************************************)
None == <<>>
Some(x) == <<x>>

Runs == {1, 2}

\* the photos the user can select, and what the vision model reads in each
Images == {1, 2, 3}

ImageOutput(img) ==
  CASE img = 1 ->
         [hasItems |-> TRUE,
          items |-> << [name |-> chickenRice, nameIsString |-> TRUE, price |-> Num(1)],
                       [name |-> paddedFishSoup, nameIsString |-> TRUE, price |-> Num(2)] >>]
    [] img = 2 ->
         [hasItems |-> TRUE,
          items |-> << [name |-> fishSoup, nameIsString |-> TRUE, price |-> Num(0)],
                       [name |-> chickenRice, nameIsString |-> TRUE, price |-> JNull] >>]
    [] OTHER ->
         [hasItems |-> TRUE,
          items |-> << [name |-> <<" ">>, nameIsString |-> TRUE, price |-> Num(0)] >>]

\* the items the extract route returns for a photo, extract/route.ts:119-132
ExtractedOf(img) == jsonItems(cleanItems(rawParse(ImageOutput(img))))

\* the outcomes of fetch("/api/extract"), README.md:332-335: the fetch
\* rejects, or the route answers an error or the cleaned items
NoFetch == [threw |-> FALSE, status |-> 0, items |-> <<>>, body |-> [pending |-> TRUE]]

ExtractFetches(img) ==
  { [threw |-> TRUE, status |-> 0, items |-> <<>>, body |-> [pending |-> TRUE]],
    [threw |-> FALSE, status |-> 500, items |-> <<>>, body |-> [pending |-> TRUE]],
    [threw |-> FALSE, status |-> 200, items |-> ExtractedOf(img),
     body |-> [pending |-> TRUE]] }

\* the outcomes of fetch("/api/analyse"), README.md:345-349: the fetch
\* rejects, or the route answers as POST of analyse/route.ts answers
AnalyseFetches(its) ==
  LET res == aloneResponse(analyseBody(its))
  IN  { [threw |-> TRUE, status |-> 0, items |-> <<>>, body |-> [pending |-> TRUE]],
        [threw |-> FALSE, status |-> res.status, items |-> <<>>, body |-> res.body] }

\* res.ok
ok(res) == res.status >= 200 /\ res.status <= 299

greeting ==
  [role |-> "assistant", content |-> <<"Hi! Ask me about the menu, nutrition, or value picks.">>]

\* README.md:206-224
InitialUi ==
  [image |-> 0, items |-> None, analysis |-> None, loading |-> FALSE,
   phase |-> "idle", error |-> None, chatOpen |-> FALSE,
   chatMessages |-> <<>>, isChatting |-> FALSE]

NoRun ==
  [pc |-> "idle", file |-> 0, overlapped |-> FALSE, sent |-> <<>>,
   extractRes |-> NoFetch, extractedItems |-> <<>>, analyseRes |-> NoFetch]

InFlight(r) == runs[r].pc \notin {"idle", "end"}

\* onFileChange with a file, README.md:231-240, and processImage up to its
\* first await, README.md:317-327
selected(u, img) ==
  [u EXCEPT !.image = img, !.items = None, !.analysis = None, !.error = None,
            !.loading = TRUE, !.phase = "extracting", !.chatOpen = FALSE]

\* README.md:338-343
extracted(u, its) == [u EXCEPT !.items = Some(its), !.phase = "analysing"]

\* README.md:352-360 and the finally of README.md:364-366
analysed(u, data) ==
  [u EXCEPT !.analysis = Some(data), !.chatMessages = <<greeting>>,
            !.chatOpen = TRUE, !.phase = "done", !.loading = FALSE]

failedKeepsPhase(u, e) == [u EXCEPT !.error = Some(e), !.loading = FALSE]

\* the catch and the finally of README.md:361-366
failed(u, e) == [u EXCEPT !.error = Some(e), !.phase = "idle", !.loading = FALSE]

\* the message of the error thrown for a response, or of a rejected fetch
errorOf(what, res) ==
  IF res.threw THEN [message |-> "Failed to fetch", status |-> 0]
  ELSE [message |-> what, status |-> res.status]

InitClient ==
  /\ ui = InitialUi
  /\ runs = [r \in Runs |-> NoRun]
  /\ chats = <<>>
  /\ analyseIdle
  /\ nameIdle
  /\ concIdle
  /\ extractIdle

\* the user selects a photo: onFileChange and the start of processImage
Client_selectFile(r) ==
  /\ runs[r].pc = "idle"
  /\ \A q \in Runs : q < r => runs[q].pc # "idle"
  /\ \E img \in Images :
       /\ ui' = selected(ui, img)
       /\ runs' = [q \in Runs |->
                     IF q = r
                       THEN [NoRun EXCEPT !.pc = "compress", !.file = img,
                                          !.overlapped = \E o \in Runs : InFlight(o)]
                     ELSE IF InFlight(q) THEN [runs[q] EXCEPT !.overlapped = TRUE]
                     ELSE runs[q]]
  /\ UNCHANGED chats

\* onFileChange without a file, README.md:231-243
Client_clearFile ==
  /\ ui.image # 0
  /\ ui' = [ui EXCEPT !.image = 0, !.items = None, !.analysis = None, !.error = None]
  /\ UNCHANGED <<runs, chats>>

\* compressImageToJpeg resolves and the extract request is sent,
\* README.md:327-335
Client_sendExtract(r) ==
  /\ runs[r].pc = "compress"
  /\ runs' = [runs EXCEPT ![r].pc = "awaitExtract",
                          ![r].sent = Append(@, [to |-> "extract", items |-> <<>>])]
  /\ UNCHANGED <<ui, chats>>

\* fetch("/api/extract") settles, README.md:332-337
Client_extractResponse(r) ==
  /\ runs[r].pc = "awaitExtract"
  /\ \E res \in ExtractFetches(runs[r].file) :
       IF res.threw \/ ~ok(res)
         THEN /\ ui' = failed(ui, errorOf("Extract failed", res))
              /\ runs' = [runs EXCEPT ![r].pc = "end", ![r].extractRes = res]
         ELSE /\ ui' = ui
              /\ runs' = [runs EXCEPT ![r].pc = "extractJson", ![r].extractRes = res]
  /\ UNCHANGED chats

\* extractRes.json() resolves; the items are shown and sent to analyse,
\* README.md:338-349
Client_sendAnalyse(r) ==
  /\ runs[r].pc = "extractJson"
  /\ LET extractedItems == runs[r].extractRes.items
     IN  /\ ui' = extracted(ui, extractedItems)
         /\ runs' = [runs EXCEPT ![r].pc = "awaitAnalyse",
                                 ![r].extractedItems = extractedItems,
                                 ![r].sent = Append(@, [to |-> "analyse",
                                                        items |-> extractedItems])]
  /\ UNCHANGED chats

\* fetch("/api/analyse") settles, README.md:345-351
Client_analyseResponse(r) ==
  /\ runs[r].pc = "awaitAnalyse"
  /\ \E res \in AnalyseFetches(runs[r].extractedItems) :
       IF res.threw \/ ~ok(res)
         THEN /\ ui' = failed(ui, errorOf("Analyse failed", res))
              /\ runs' = [runs EXCEPT ![r].pc = "end", ![r].analyseRes = res]
         ELSE /\ ui' = ui
              /\ runs' = [runs EXCEPT ![r].pc = "analyseJson", ![r].analyseRes = res]
  /\ UNCHANGED chats

\* analyseRes.json() resolves, README.md:351-366
Client_showAnalysis(r) ==
  /\ runs[r].pc = "analyseJson"
  /\ ui' = analysed(ui, runs[r].analyseRes.body)
  /\ runs' = [runs EXCEPT ![r].pc = "end"]
  /\ UNCHANGED chats

NextClient ==
  \/ /\ \E r \in Runs : Client_selectFile(r)
     /\ UNCHANGED <<analyseVars, nameVars, concVars, extract>>
  \/ /\ Client_clearFile
     /\ UNCHANGED <<analyseVars, nameVars, concVars, extract>>
  \/ /\ \E r \in Runs : Client_sendExtract(r)
     /\ UNCHANGED <<analyseVars, nameVars, concVars, extract>>
  \/ /\ \E r \in Runs : Client_extractResponse(r)
     /\ UNCHANGED <<analyseVars, nameVars, concVars, extract>>
  \/ /\ \E r \in Runs : Client_sendAnalyse(r)
     /\ UNCHANGED <<analyseVars, nameVars, concVars, extract>>
  \/ /\ \E r \in Runs : Client_analyseResponse(r)
     /\ UNCHANGED <<analyseVars, nameVars, concVars, extract>>
  \/ /\ \E r \in Runs : Client_showAnalysis(r)
     /\ UNCHANGED <<analyseVars, nameVars, concVars, extract>>

SpecClient == InitClient /\ [][NextClient]_vars


(***************************************************************************)
(* Properties of processImage.                                             *)
(***************************************************************************)
\* the run r has started, no other run was in flight while it was, and no
\* run has started after it
Alone(r) ==
  /\ runs # <<>>
  /\ runs[r].pc # "idle"
  /\ ~runs[r].overlapped
  /\ \A q \in Runs : q > r => runs[q].pc = "idle"

Succeeded(r) ==
  /\ ~runs[r].extractRes.threw /\ ok(runs[r].extractRes)
  /\ ~runs[r].analyseRes.threw /\ ok(runs[r].analyseRes)

SentTo(r) == [i \in DOMAIN runs[r].sent |-> runs[r].sent[i].to]

PhaseMoves ==
  { <<"idle", "extracting">>, <<"done", "extracting">>,
    <<"extracting", "analysing">>, <<"analysing", "done">>,
    <<"extracting", "idle">>, <<"analysing", "idle">> }
  \cup { <<ph, ph>> : ph \in {"idle", "extracting", "analysing", "done"} }

C17_During(r) ==
  /\ runs[r].pc \in {"compress", "awaitExtract", "extractJson"} =>
       /\ ui.phase = "extracting"
       /\ ui.loading
       /\ SentTo(r) \in {<<>>, <<"extract">>}
  /\ runs[r].pc \in {"awaitAnalyse", "analyseJson"} =>
       /\ ui.phase = "analysing"
       /\ ui.loading
       /\ ~runs[r].extractRes.threw /\ ok(runs[r].extractRes)
       /\ SentTo(r) = <<"extract", "analyse">>
  /\ (ui.analysis # None \/ ui.chatOpen \/ ui.phase = "done") =>
       runs[r].pc = "end" /\ Succeeded(r)
  /\ runs[r].pc = "end" =>
       /\ ~ui.loading
       /\ ui.phase = (IF Succeeded(r) THEN "done" ELSE "idle")

C17_Ending(r) ==
  (runs[r].pc # "end" /\ runs'[r].pc = "end") =>
    /\ ~ui'.loading
    /\ IF Succeeded(r)'
         THEN /\ ui'.phase = "done"
              /\ ui'.analysis = Some(runs'[r].analyseRes.body)
              /\ ui'.chatOpen
         ELSE /\ ui'.phase = "idle"
              /\ ui'.error # None
              /\ ui'.analysis = None
              /\ ~ui'.chatOpen

\* C17: while a run of processImage that no other run overlaps is in
\* flight, phase is extracting until the extract request has succeeded and
\* analysing after, loading is true, and the analyse request is sent only
\* after a successful extract response; phase only moves along
\* extracting -> analysing -> done or back to idle; analysis is set, the chat
\* open and phase done only when both requests succeeded; the run ends with
\* loading false, and after a failure with phase idle, error set and
\* analysis null
C17_SingleRun ==
  /\ [](\A r \in DOMAIN runs : Alone(r) => C17_During(r))
  /\ [][\A r \in DOMAIN runs : Alone(r)' =>
          /\ C17_Ending(r)
          /\ <<ui.phase, ui'.phase>> \in PhaseMoves]_vars

\* the second run, started after the first had ended with its analysis
\* shown, has ended after a refused analyse request
C17_Witness ==
  /\ runs # <<>>
  /\ runs[1].pc = "end" /\ Succeeded(1)
  /\ Alone(2)
  /\ runs[2].pc = "end"
  /\ runs[2].analyseRes.status = 400
  /\ ui.phase = "idle"
  /\ ui.error # None


EmptyExtract(r) ==
  /\ ~runs[r].extractRes.threw
  /\ ok(runs[r].extractRes)
  /\ runs[r].extractRes.items = <<>>

C18_Ending(r) ==
  (runs[r].pc # "end" /\ runs'[r].pc = "end" /\ EmptyExtract(r)') =>
    /\ SentTo(r)' = <<"extract", "analyse">>
    /\ runs'[r].sent[2].items = <<>>
    /\ ~runs'[r].analyseRes.threw =>
         /\ runs'[r].analyseRes.status = 400
         /\ runs'[r].analyseRes.body.error = "Invalid payload"
    /\ ui'.phase = "idle"
    /\ ui'.error # None
    /\ ui'.analysis = None
    /\ ui'.items = Some(<<>>)

\* C18: a run of processImage whose extract request succeeded with an empty
\* item list has sent that empty list to analyse, analyse has refused it
\* with a validation error, and the run ends with phase idle, error set,
\* analysis null and items the empty list; phase is never done while the
\* items are the empty list
C18_EmptyExtract ==
  /\ [](~(ui.phase = "done" /\ ui.items = Some(<<>>)))
  /\ [][\A r \in DOMAIN runs : C18_Ending(r)]_vars

\* the analyses analyse gives for the items of a photo
AnalysisOf(img) ==
  LET res == aloneResponse(analyseBody(ExtractedOf(img)))
  IN  IF ok(res) THEN {Some(res.body)} ELSE {}

\* C19: loading is true while a run of processImage is in flight; and when
\* a second photo was selected while the run for the first was in flight,
\* then once both runs have ended the items and the analysis shown are
\* those of the photo selected last
C19_LatestWins ==
  /\ (\E r \in DOMAIN runs : InFlight(r)) => ui.loading
  /\ (/\ runs # <<>>
      /\ runs[1].pc = "end" /\ runs[2].pc = "end"
      /\ runs[2].overlapped
      /\ ui.image = runs[2].file)
       => /\ ui.items \in {None, Some(ExtractedOf(ui.image))}
          /\ ui.analysis \in {None} \cup AnalysisOf(ui.image)


(***************************************************************************)
(* The chat of the page: askChat, README.md:369-415, started from a        *)
(* suggested question (README.md:593-612) or from the input through        *)
(* handleSendChat (README.md:417-422), against the chat route,             *)
(* src/src/app/api/chat/route.ts.  The content of a message is a sequence  *)
(* of pieces of text, the empty sequence being the empty string.           *)
(***************************************************************************)
\* most chunks a response stream delivers
MaxChunks == 2

ChatCalls == {1, 2}

NoChat ==
  [pc |-> "idle", question |-> <<>>, payload |-> <<>>, assistantText |-> <<>>,
   chunks |-> 0, status |-> 0]

\* what the stream of the call c delivers in one read
chunkOf(c) == IF c = 1 THEN "a" ELSE "b"

typedQuestion == <<"Is laksa healthy?">>

\* the questions askChat is called with: one of analysis.follow_up_questions,
\* or the trimmed, non-empty input
Questions(via) ==
  IF via = "suggested"
    THEN { <<followUpQuestions[i]>> : i \in DOMAIN followUpQuestions }
    ELSE { typedQuestion }

\* README.md:253-263
buildSystemPrompt(its) ==
  << "You are a helpful nutrition and food assistant specialising in Singapore hawker centre food.",
     IF its = None THEN "Extracted menu items JSON: null"
     ELSE "Extracted menu items JSON: {items}" >>

\* ChatSchema.safeParse, chat/route.ts:8-25: messages .min(1), each role of
\* the enum and each content .min(1)
chatSchemaOk(messages) ==
  /\ Len(messages) >= 1
  /\ \A i \in DOMAIN messages :
       /\ messages[i].role \in {"system", "user", "assistant"}
       /\ Len(messages[i].content) >= 1

\* the outcomes of fetch("/api/chat"), README.md:383-388: the fetch rejects,
\* or the route answers 400 to a payload ChatSchema refuses
\* (chat/route.ts:29-36), and else the stream or 500 (chat/route.ts:69-86)
ChatFetches(messages) ==
  { [threw |-> TRUE, status |-> 0] } \cup
  ( IF chatSchemaOk(messages)
      THEN { [threw |-> FALSE, status |-> 200], [threw |-> FALSE, status |-> 500] }
      ELSE { [threw |-> FALSE, status |-> 400] } )

\* updated[updated.length - 1] = { role: "assistant", content: assistantText },
\* README.md:401-408
replaceLast(prev, text) ==
  [i \in DOMAIN prev |->
     IF i = Len(prev) THEN [role |-> "assistant", content |-> text] ELSE prev[i]]

\* the page after a run of processImage on the first photo has ended well
AnalysedUi ==
  LET its == ExtractedOf(1)
  IN  analysed(extracted(selected(InitialUi, 1), its),
               aloneResponse(analyseBody(its)).body)

InitChat ==
  /\ ui = AnalysedUi
  /\ runs = <<>>
  /\ chats = [c \in ChatCalls |-> NoChat]
  /\ analyseIdle
  /\ nameIdle
  /\ concIdle
  /\ extractIdle

\* askChat up to its await of fetch, README.md:369-388
Chat_ask(c) ==
  /\ chats[c].pc = "idle"
  /\ \A d \in ChatCalls : d < c => chats[d].pc # "idle"
  /\ \E via \in {"suggested", "typed"} :
       /\ via = "suggested" => ui.analysis # None
       /\ via = "typed" => ui.chatOpen /\ ~ui.isChatting
       /\ \E question \in Questions(via) :
            LET newMessages == Append(ui.chatMessages,
                                      [role |-> "user", content |-> question])
                payloadMessages ==
                  <<[role |-> "system", content |-> buildSystemPrompt(ui.items)]>>
                  \o newMessages
            IN  /\ ui' = [ui EXCEPT !.chatOpen = TRUE, !.chatMessages = newMessages]
                /\ chats' = [chats EXCEPT ![c] = [NoChat EXCEPT !.pc = "awaitChat",
                                                               !.question = question,
                                                               !.payload = payloadMessages]]
  /\ UNCHANGED runs

\* fetch settles, README.md:383-396; a failure goes to the catch of
\* README.md:411-414
Chat_response(c) ==
  /\ chats[c].pc = "awaitChat"
  /\ \E res \in ChatFetches(chats[c].payload) :
       IF res.threw \/ ~ok(res)
         THEN /\ ui' = [ui EXCEPT !.error = Some(errorOf("Chat failed", res)),
                                  !.isChatting = FALSE]
              /\ chats' = [chats EXCEPT ![c].pc = "end", ![c].status = res.status]
         ELSE /\ ui' = [ui EXCEPT !.isChatting = TRUE,
                                  !.chatMessages =
                                    Append(@, [role |-> "assistant", content |-> <<>>])]
              /\ chats' = [chats EXCEPT ![c].pc = "reading", ![c].status = res.status]
  /\ UNCHANGED runs

\* reader.read() gives a chunk, README.md:397-409
Chat_chunk(c) ==
  /\ chats[c].pc = "reading"
  /\ chats[c].chunks < MaxChunks
  /\ LET assistantText == Append(chats[c].assistantText, chunkOf(c))
     IN  /\ chats' = [chats EXCEPT ![c].assistantText = assistantText,
                                   ![c].chunks = @ + 1]
         /\ ui' = [ui EXCEPT !.chatMessages = replaceLast(@, assistantText)]
  /\ UNCHANGED runs

\* reader.read() gives done, README.md:399 and 410
Chat_done(c) ==
  /\ chats[c].pc = "reading"
  /\ chats' = [chats EXCEPT ![c].pc = "end"]
  /\ ui' = [ui EXCEPT !.isChatting = FALSE]
  /\ UNCHANGED runs

\* reader.read() rejects, README.md:411-414
Chat_readFails(c) ==
  /\ chats[c].pc = "reading"
  /\ chats' = [chats EXCEPT ![c].pc = "end"]
  /\ ui' = [ui EXCEPT !.error = Some([message |-> "Failed to fetch", status |-> 0]),
                      !.isChatting = FALSE]
  /\ UNCHANGED runs

NextChat ==
  \/ /\ \E c \in ChatCalls : Chat_ask(c)
     /\ UNCHANGED <<analyseVars, nameVars, concVars, extract>>
  \/ /\ \E c \in ChatCalls : Chat_response(c)
     /\ UNCHANGED <<analyseVars, nameVars, concVars, extract>>
  \/ /\ \E c \in ChatCalls : Chat_chunk(c)
     /\ UNCHANGED <<analyseVars, nameVars, concVars, extract>>
  \/ /\ \E c \in ChatCalls : Chat_done(c)
     /\ UNCHANGED <<analyseVars, nameVars, concVars, extract>>
  \/ /\ \E c \in ChatCalls : Chat_readFails(c)
     /\ UNCHANGED <<analyseVars, nameVars, concVars, extract>>

SpecChat == InitChat /\ [][NextChat]_vars

(***************************************************************************)
(* Properties of the chat history.                                         *)
(***************************************************************************)
Asked == {c \in DOMAIN chats : chats[c].pc # "idle"}

\* the calls that have appended their assistant placeholder
Answering ==
  {c \in DOMAIN chats : chats[c].pc = "reading"
                          \/ (chats[c].pc = "end" /\ chats[c].status = 200)}

UserMessages == SelectSeq(ui.chatMessages, LAMBDA m : m.role = "user")

\* C20: nothing of the chat history is overwritten or lost: the greeting
\* stays first, the user messages are the questions of the calls of askChat
\* in their order, and every call that appended its assistant placeholder
\* has a message of its own holding the text it has streamed so far
C20_History ==
  chats # <<>> =>
    /\ ui.chatMessages[1] = greeting
    /\ Len(UserMessages) = Cardinality(Asked)
    /\ \A c \in Asked : UserMessages[c] = [role |-> "user", content |-> chats[c].question]
    /\ \E f \in [Answering -> DOMAIN ui.chatMessages] :
         /\ \A c, d \in Answering : f[c] = f[d] => c = d
         /\ \A c \in Answering :
              ui.chatMessages[f[c]] = [role |-> "assistant",
                                       content |-> chats[c].assistantText]


\* C21: every message of the payload a call of askChat sends has a content
\* that is not empty, so the payload passes ChatSchema and no chat request
\* is answered 400, whatever happened to the exchanges before it
C21_PayloadValid ==
  \A c \in DOMAIN chats :
    chats[c].pc # "idle" =>
      /\ Len(chats[c].payload) >= 1
      /\ \A i \in DOMAIN chats[c].payload : Len(chats[c].payload[i].content) >= 1
      /\ chatSchemaOk(chats[c].payload)
      /\ chats[c].status # 400

====
